---- MODULE Spec2Model ----
(***************************************************************************)
(* A model of erred (src/src/index.ts): the error-normalisation middleware *)
(* created by createMiddleware, its plugin chain (erred.stack, erred.use), *)
(* the handler (erred.handleError) and the built-in formatter (format).    *)
(*                                                                         *)
(* Error values live in a heap of nodes addressed by references            *)
(* [t |-> family, n |-> index]; the nodes are the errors the repository's  *)
(* tests build (src/unnamed/part_001) plus the two errors the handler      *)
(* synthesises itself.                                                     *)
(***************************************************************************)
EXTENDS Integers, Sequences, FiniteSets, TLC

VARIABLES
    opts,         \* the merged options of createMiddleware
    stack,        \* erred.stack: the plugin chain
    lastUse,      \* outcome of the last erred.use() call
    pc,           \* position of the handler
    err,          \* handleError's parameter err (the raw error)
    idx,          \* handleError's local idx
    error,        \* handleError's local error
    match,        \* handleError's local match
    errorObject,  \* handleError's local errorObject
    caught,       \* the value bound by catch (err) at line 169
    intIdx,       \* number of integrations forEach has already called
    res,          \* the response object
    nextCalls,    \* the arguments next() was called with
    thrown,       \* the exception that left the handler, if any
    log           \* the calls the handler made, in order

vars == <<opts, stack, lastUse, pc, err, idx, error, match, errorObject,
          caught, intIdx, res, nextCalls, thrown, log>>

----------------------------------------------------------------------------
(* Bounds of the model *)

MaxPlugins == 2
MaxIntegrations == 2
MaxChain == 11

(* format's recursion ceiling: if (depth > 10) throw *)
MaxDepth == 10

(* the number of nested calls at one depth the engine's call stack holds:  *)
(* depth is at most MaxDepth + 1, so this bounds the whole stack           *)
MaxCallStack == 4

----------------------------------------------------------------------------
(* References and the error heap *)

Ref(t, n) == [t |-> t, n |-> n]

Undefined == Ref("undefined", 0)
Absent == Ref("absent", 0)

(* The depths of underlying-error chains the inputs are drawn with *)
Depths == {1} \cup ((MaxChain - 2)..MaxChain)

BlankNode ==
    [kind |-> "error", http |-> FALSE, status |-> 0,
     message |-> "undefined", name |-> "undefined", stack |-> Undefined,
     hasCode |-> FALSE, code |-> "undefined",
     hasUnderlying |-> FALSE, underlying |-> Undefined,
     hasMeta |-> FALSE, meta |-> "undefined",
     hasProperty |-> FALSE, property |-> "undefined",
     hasValue |-> FALSE, value |-> "undefined",
     redirectURL |-> "undefined", elems |-> <<>>]

ErrorNode(id, name, message) ==
    [BlankNode EXCEPT !.name = name, !.message = message, !.stack = id]

HTTPNode(id, name, status, message) ==
    [ErrorNode(id, name, message) EXCEPT !.http = TRUE, !.status = status]

ArrayNode(elems) == [BlankNode EXCEPT !.kind = "array", !.elems = elems]

WithUnderlying(node, ref) ==
    [node EXCEPT !.hasUnderlying = TRUE, !.underlying = ref]

(* new errors.InternalServerError(undefined, [wrapped]): the message is dropped *)
InternalServerErrorNoMessage(id, message, arr) ==
    WithUnderlying(HTTPNode(id, "InternalServerError", 500, "Internal Server Error"), arr)

(* new errors.InternalServerError(message, [wrapped]) *)
InternalServerError(id, message, arr) ==
    WithUnderlying(HTTPNode(id, "InternalServerError", 500, message), arr)

(* The node a reference to an error built outside the handler denotes *)
StaticNode(id) ==
    CASE id.t = "undefined" -> [BlankNode EXCEPT !.kind = "undefined"]
      \* new Error('This is a test')
      [] id.t = "plain" -> ErrorNode(id, "Error", "This is a test")
      \* the plain object {status: 404, message: 'x'}
      [] id.t = "duck" ->
            [BlankNode EXCEPT !.status = 404, !.message = "x"]
      \* createUnderlyingErrorWithDepth(n): n errors linked by one-element
      \* arrays, the last one carrying underlyingError: []
      [] id.t = "chain" ->
            WithUnderlying(ErrorNode(id, "Error", "depth"), Ref("chainArr", id.n))
      [] id.t = "chainArr" ->
            ArrayNode(IF id.n > 1 THEN <<Ref("chain", id.n - 1)>> ELSE <<>>)
      \* n errors linked by a single underlyingError each, the last has none
      [] id.t = "link" ->
            IF id.n > 1
            THEN WithUnderlying(ErrorNode(id, "Error", "depth"), Ref("link", id.n - 1))
            ELSE ErrorNode(id, "Error", "depth")
      \* new InternalServerError('This is a test')
      [] id.t = "http500" ->
            HTTPNode(id, "InternalServerError", 500, "This is a test")
      \* new NoContent()
      [] id.t = "http204" -> HTTPNode(id, "NoContent", 204, "No Content")
      \* new PermanentRedirect('http://google.com')
      [] id.t = "http308" ->
            [HTTPNode(id, "PermanentRedirect", 308, "Permanent Redirect")
                EXCEPT !.redirectURL = "http://google.com"]
      \* new Conflict('Duplicate key')
      [] id.t = "http409" -> HTTPNode(id, "Conflict", 409, "Duplicate key")
      \* new UnprocessableEntity('Unable to update', [createUnderlyingErrorWithDepth(n)])
      [] id.t = "http422" ->
            WithUnderlying(HTTPNode(id, "UnprocessableEntity", 422, "Unable to update"),
                           Ref("http422Arr", id.n))
      [] id.t = "http422Arr" -> ArrayNode(<<Ref("chain", id.n)>>)
      \* an HTTPError whose underlyingError is one error, not a list
      [] id.t = "http422One" ->
            WithUnderlying(HTTPNode(id, "UnprocessableEntity", 422, "Unable to update"),
                           Ref("link", id.n))
      \* new UnprocessableEntity('Unable to create new order', [...], 71818)
      [] id.t = "http422v" ->
            [WithUnderlying(HTTPNode(id, "UnprocessableEntity", 422,
                                     "Unable to create new order"),
                            Ref("http422vArr", 0))
                EXCEPT !.hasCode = TRUE, !.code = "71818"]
      [] id.t = "http422vArr" ->
            ArrayNode(<<Ref("valueError", 0), Ref("metaError", 0), Ref("bothError", 0)>>)
      \* an UnprocessableEntity that itself carries meta, property and value
      [] id.t = "http422p" ->
            [HTTPNode(id, "UnprocessableEntity", 422, "Unable to update")
                EXCEPT !.hasMeta = TRUE, !.meta = "form",
                       !.hasProperty = TRUE, !.property = "email",
                       !.hasValue = TRUE, !.value = "none"]
      \* Object.assign(new Error('name should be a string'), {property, value})
      [] id.t = "valueError" ->
            [ErrorNode(id, "Error", "name should be a string")
                EXCEPT !.hasProperty = TRUE, !.property = "name",
                       !.hasValue = TRUE, !.value = "1337"]
      \* an error carrying meta only
      [] id.t = "metaError" ->
            [ErrorNode(id, "ENOENT", "no such file")
                EXCEPT !.hasCode = TRUE, !.code = "ENOENT",
                       !.hasMeta = TRUE, !.meta = "path,errno"]
      \* an error carrying meta and property, without value
      [] id.t = "bothError" ->
            [ErrorNode(id, "Error", "age is required")
                EXCEPT !.hasMeta = TRUE, !.meta = "yes",
                       !.hasProperty = TRUE, !.property = "age"]
      \* an HTTPError whose underlyingError is the error itself
      [] id.t = "selfRef" ->
            WithUnderlying(HTTPNode(id, "UnprocessableEntity", 422, "Unable to update"), id)
      \* an HTTPError whose underlyingError is a list holding the error itself
      [] id.t = "selfList" ->
            WithUnderlying(HTTPNode(id, "UnprocessableEntity", 422, "Unable to update"),
                           Ref("selfListArr", 0))
      [] id.t = "selfListArr" -> ArrayNode(<<Ref("selfList", 0)>>)
      \* an HTTPError over a list that holds a list: [[valueError], metaError]
      [] id.t = "nestedList" ->
            WithUnderlying(HTTPNode(id, "UnprocessableEntity", 422, "Unable to update"),
                           Ref("nestedListArr", 0))
      [] id.t = "nestedListArr" ->
            ArrayNode(<<Ref("innerList", 0), Ref("metaError", 0)>>)
      [] id.t = "innerList" -> ArrayNode(<<Ref("valueError", 0)>>)
      \* an HTTPError over a list that holds itself: a = [valueError]; a.push(a)
      [] id.t = "cyclicList" ->
            WithUnderlying(HTTPNode(id, "UnprocessableEntity", 422, "Unable to update"),
                           Ref("cyclicListArr", 0))
      [] id.t = "cyclicListArr" ->
            ArrayNode(<<Ref("valueError", 0), Ref("cyclicListArr", 0)>>)
      \* exceptions
      [] id.t = "StackOverflow" ->
            ErrorNode(id, "RangeError", "Maximum call stack size exceeded")
      [] id.t = "RangeError" ->
            ErrorNode(id, "RangeError", "Unable to process a depth greater than 10")
      [] id.t = "TypeError" ->
            ErrorNode(id, "TypeError", "Cannot read properties of undefined")
      [] id.t = "FormatterError" -> ErrorNode(id, "Error", "formatter failed")
      [] id.t = "PluginError" -> ErrorNode(id, "Error", "plugin failed")
      [] id.t = "IntegrationError" -> ErrorNode(id, "Error", "integration failed")
      [] OTHER -> [BlankNode EXCEPT !.kind = "undefined"]

(* The node a reference denotes.  raw is the handler's err and cth the     *)
(* value its catch clause bound: the errors built while handling wrap them *)
Node(raw, cth, id) ==
    CASE id.t = "plugin422" ->
      \* a plugin's new UnprocessableEntity('Invalid body', [err])
            WithUnderlying(HTTPNode(id, "UnprocessableEntity", 422, "Invalid body"),
                           Ref("plugin422Arr", 0))
      [] id.t = "plugin422Arr" -> ArrayNode(<<raw>>)
      \* line 151: new errors.InternalServerError(err.message, [err])
      [] id.t = "default500" ->
            InternalServerError(id, StaticNode(raw).message, Ref("default500Arr", 0))
      [] id.t = "default500Arr" -> ArrayNode(<<raw>>)
      \* line 171: new errors.InternalServerError('Failed to parse an error object', [err])
      [] id.t = "parseFail" ->
            InternalServerError(id, "Failed to parse an error object",
                                Ref("parseFailArr", 0))
      [] id.t = "parseFailArr" -> ArrayNode(<<cth>>)
      [] OTHER -> StaticNode(id)

(* The raw errors a request pipeline hands to the handler *)
RawErrors ==
    {Ref("plain", 0), Ref("duck", 0), Ref("http500", 0), Ref("http204", 0),
     Ref("http308", 0), Ref("http422v", 0), Ref("http422p", 0),
     Ref("selfRef", 0), Ref("selfList", 0), Ref("nestedList", 0),
     Ref("cyclicList", 0)}
    \cup {Ref(t, n) : t \in {"chain", "link", "http422", "http422One"}, n \in Depths}

----------------------------------------------------------------------------
(* Formatted error objects and the formatters *)

NoMeta == [kind |-> "absent", meta |-> "undefined",
           property |-> "undefined", value |-> "undefined"]

(* errorObject.meta = error.meta *)
OwnMeta(n) == [NoMeta EXCEPT !.kind = "meta", !.meta = n.meta]

(* errorObject.meta = { property: error.property, value: error.value } *)
PropertyValueMeta(n) ==
    [NoMeta EXCEPT !.kind = "propertyValue",
                   !.property = n.property, !.value = n.value]

(* the meta copied last wins: an error's own meta replaces {property, value} *)
FormatMetaOwnWins(n) ==
    IF n.hasMeta THEN OwnMeta(n)
    ELSE IF n.hasProperty \/ n.hasValue THEN PropertyValueMeta(n)
    ELSE NoMeta

(* lines 236-245: meta is copied if present, then overwritten by           *)
(* {property, value} if either of the two is present                       *)
FormatMeta(n) ==
    IF n.hasProperty \/ n.hasValue THEN PropertyValueMeta(n)
    ELSE IF n.hasMeta THEN OwnMeta(n)
    ELSE NoMeta

NoObject == [isArr |-> FALSE, isObj |-> FALSE]

FormattedArray(items) == [isArr |-> TRUE, isObj |-> FALSE, items |-> items]

(* the outcome of a call: its value or the exception it raised, and the    *)
(* greatest depth argument any call of the recursion was entered with      *)
Ok(v) == [ok |-> TRUE, val |-> v, exc |-> Absent, deepest |-> 0]
Throw(e) == [ok |-> FALSE, val |-> NoObject, exc |-> e, deepest |-> 0]

WithDeepest(r, d) == [r EXCEPT !.deepest = d]

MaxOf(S) == CHOOSE d \in S : \A e \in S : e <= d

(* the ceiling checked one level late *)
DepthExceededLate(depth) == depth > MaxDepth + 1

(* if (depth > 10) *)
DepthExceeded(depth) == depth > MaxDepth

(* the errorMap of the tests' documentationFormat *)
ErrorMapHas(code) == code = "71818"
ErrorMapMessage == "Unable to process an order due to incorrect input"
ErrorMapURL == "https://docs.example.com/REST/order#postOrder"

NotArray(v) == ~v.isArr

(* lines 222-247: the object built for one error; errors is the formatted *)
(* underlyingError                                                          *)
FormattedError(doc, n, errors) ==
    LET mapped == doc /\ n.hasCode /\ ErrorMapHas(n.code) IN
    [isArr |-> FALSE, isObj |-> TRUE,
     message |-> IF mapped THEN ErrorMapMessage ELSE n.message,
     name |-> n.name,
     hasCode |-> n.hasCode,
     code |-> n.code,
     documentationURL |-> IF mapped THEN ErrorMapURL ELSE "undefined",
     hasErrors |-> n.hasUnderlying,
     errors |-> errors,
     meta |-> FormatMeta(n),
     hasStack |-> FALSE,
     stack |-> Absent]

(* format (doc = FALSE) and the tests' documentationFormat (doc = TRUE),   *)
(* which differs from it by the errorMap lookup only                       *)
(* frames counts the calls nested since depth last grew, which only the   *)
(* elements of lists add to: a recursion that outgrows the engine's call   *)
(* stack ends in 'Maximum call stack size exceeded'                        *)
RECURSIVE formatRec(_, _, _, _, _, _)
RECURSIVE formatEach(_, _, _, _, _, _, _, _)

(* error.map((el) => format(el, depth)).filter((el) => !Array.isArray(el)) *)
(* from element i on: each element is formatted once, at the list's own    *)
(* depth; the first element that throws ends the map; acc holds the        *)
(* results kept so far and deepest the greatest depth reached so far       *)
formatEach(doc, raw, cth, elems, i, pos, acc, deepest) ==
    IF i > Len(elems)
    THEN WithDeepest(Ok(FormattedArray(acc)), deepest)
    ELSE CHOOSE out \in
           {IF ~r.ok
            THEN WithDeepest(r, MaxOf({deepest, r.deepest}))
            ELSE formatEach(doc, raw, cth, elems, i + 1, pos,
                            IF NotArray(r.val) THEN Append(acc, r.val) ELSE acc,
                            MaxOf({deepest, r.deepest}))
            : r \in {formatRec(doc, raw, cth, elems[i], pos.depth,
                               pos.frames + 1)}} : TRUE

formatRec(doc, raw, cth, id, depth, frames) ==
    IF frames > MaxCallStack
    THEN WithDeepest(Throw(Ref("StackOverflow", 0)), depth)
    ELSE IF DepthExceeded(depth)
    THEN WithDeepest(Throw(Ref("RangeError", 0)), depth)
    ELSE
      LET n == Node(raw, cth, id) IN
      IF n.kind = "array"
      THEN formatEach(doc, raw, cth, n.elems, 1,
                      [depth |-> depth, frames |-> frames], <<>>, depth)
      ELSE IF n.kind = "undefined"
      THEN WithDeepest(Throw(Ref("TypeError", 0)), depth)
      ELSE IF ~n.hasUnderlying
      THEN WithDeepest(Ok(FormattedError(doc, n, NoObject)), depth)
      ELSE CHOOSE out \in
             {IF ~sub.ok
              THEN sub
              ELSE WithDeepest(Ok(FormattedError(doc, n, sub.val)), sub.deepest)
              : sub \in {formatRec(doc, raw, cth, n.underlying, depth + 1,
                                   0)}} : TRUE

format(raw, cth, id, depth) == formatRec(FALSE, raw, cth, id, depth, 0)

documentationFormat(raw, cth, id, depth) == formatRec(TRUE, raw, cth, id, depth, 0)

(* a formatter that raises on every input *)
alwaysThrows(raw, cth, id, depth) == Throw(Ref("FormatterError", 0))

Formatters == {"format", "documentationFormat", "alwaysThrows"}

(* (opts.formatter || format)(error, 0) *)
CallFormatter(f, raw, cth, id) ==
    CASE f = "documentationFormat" -> documentationFormat(raw, cth, id, 0)
      [] f = "alwaysThrows" -> alwaysThrows(raw, cth, id, 0)
      [] OTHER -> format(raw, cth, id, 0)

----------------------------------------------------------------------------
(* The status tables of the statuses package, as the handler reads them *)

EmptyStatuses == {204, 205, 304}
RedirectStatuses == {300, 301, 302, 303, 305, 307, 308}

(* the redirect table read where the empty table is meant *)
isEmptyFromRedirectTable(n) == n.status \in RedirectStatuses

(* _.empty[error.status] === true *)
isEmpty(n) == n.status \in EmptyStatuses

(* _.redirect[error.status] === true *)
isRedirect(n) == n.status \in RedirectStatuses

----------------------------------------------------------------------------
(* Plugins *)

(* the classifiers a caller registers with use() *)
PluginKinds == {"returnsObject", "toUnprocessable", "toConflict", "throws"}

(* a pass-through that never recognises the error *)
defaultPluginSkips(raw) == Ok(Undefined)

(* if (err instanceof errors.HTTPError) return err *)
defaultPlugin(raw) == IF StaticNode(raw).http THEN Ok(raw) ELSE Ok(Undefined)

(* layer.call({ errors }, err, req) *)
CallPlugin(layer, raw) ==
    CASE layer = "defaultPlugin" -> defaultPlugin(raw)
      \* returns a value that is not an HTTPError
      [] layer = "returnsObject" -> Ok(Ref("duck", 0))
      \* return new this.errors.UnprocessableEntity('Invalid body', [err])
      [] layer = "toUnprocessable" -> Ok(Ref("plugin422", 0))
      \* return new this.errors.Conflict('Duplicate key')
      [] layer = "toConflict" -> Ok(Ref("http409", 0))
      [] OTHER -> Throw(Ref("PluginError", 0))

(* a duck-typed check: any returned value counts as a match *)
IsMatchAnyValue(raw, v) == v # Undefined

(* (error != null) && error instanceof errors.HTTPError *)
IsMatch(raw, v) == v # Undefined /\ Node(raw, Undefined, v).http

----------------------------------------------------------------------------
(* The response object (express), as far as the handler uses it *)

NoBody == [error |-> NoObject, meta |-> [status |-> 0]]

FreshResponse ==
    [statusCode |-> 200, sent |-> "none", location |-> "undefined",
     body |-> NoBody, writes |-> 0]

(* res.status(code) *)
ResStatus(r, code) == [r EXCEPT !.statusCode = code]

(* res.end() *)
ResEnd(r) == [r EXCEPT !.sent = "end", !.writes = @ + 1]

(* res.redirect(url): called with the url alone, express answers 302 *)
ResRedirect(r, url) ==
    [r EXCEPT !.statusCode = 302, !.location = url,
              !.sent = "redirect", !.writes = @ + 1]

(* res.json(body) *)
ResJson(r, body) == [r EXCEPT !.body = body, !.sent = "json", !.writes = @ + 1]

Event(op, who, n, ref) == [op |-> op, who |-> who, n |-> n, ref |-> ref]

----------------------------------------------------------------------------
(* createMiddleware *)

IntegrationKinds == {"logs", "throws"}

IntegrationLists ==
    UNION {[1..k -> IntegrationKinds] : k \in 0..MaxIntegrations}

(* Object.assign({ stack, default500: false, formatter: format }, options) *)
Options ==
    [stack : BOOLEAN, default500 : BOOLEAN, formatter : Formatters,
     integrations : IntegrationLists]

NoUse == [outcome |-> "none", got |-> "none",
          arg |-> [type |-> "none", truthy |-> FALSE, fn |-> "none"]]

Init ==
    /\ opts \in Options
    /\ stack = <<"defaultPlugin">>
    /\ lastUse = NoUse
    /\ pc = "idle"
    /\ err = Undefined
    /\ idx = 0
    /\ error = Undefined
    /\ match = FALSE
    /\ errorObject = NoObject
    /\ caught = Undefined
    /\ intIdx = 0
    /\ res = FreshResponse
    /\ nextCalls = <<>>
    /\ thrown = Undefined
    /\ log = <<>>

Idle == pc \in {"idle", "returned", "threw"}

----------------------------------------------------------------------------
(* erred.use *)

UseArguments ==
    {[type |-> "function", truthy |-> TRUE, fn |-> k] : k \in PluginKinds}
    \cup {[type |-> "undefined", truthy |-> FALSE, fn |-> "none"],
          [type |-> "Null", truthy |-> FALSE, fn |-> "none"],
          [type |-> "Array", truthy |-> TRUE, fn |-> "none"],
          [type |-> "number", truthy |-> TRUE, fn |-> "none"]}

(* typeof obj, or the [[Class]] of an object *)
gettype(arg) == arg.type

(* only the first check, if (!fn): any truthy argument is pushed *)
UseOutcomeTruthyOnly(arg) ==
    IF ~arg.truthy
    THEN "TypeError: erred.use() requires a middleware function"
    ELSE "ok"

UseOutcome(arg) ==
    IF ~arg.truthy
    THEN "TypeError: erred.use() requires a middleware function"
    ELSE IF arg.type # "function"
    THEN "TypeError: erred.use() requires a middleware function but got a "
    ELSE "ok"

(* use() is called while the middleware is set up, before it handles errors *)
Use(arg) ==
    /\ pc = "idle"
    /\ UseOutcome(arg) = "ok" => Len(stack) <= MaxPlugins
    /\ lastUse' = [outcome |-> UseOutcome(arg),
                   got |-> IF arg.truthy /\ arg.type # "function"
                           THEN gettype(arg) ELSE "none",
                   arg |-> arg]
    /\ stack' = IF UseOutcome(arg) = "ok" THEN Append(stack, arg.fn) ELSE stack
    /\ UNCHANGED <<opts, pc, err, idx, error, match, errorObject, caught,
                   intIdx, res, nextCalls, thrown, log>>

----------------------------------------------------------------------------
(* erred.handleError *)

(* entry: let idx = 0, let match = false, error unassigned *)
Handle(raw) ==
    /\ Idle
    /\ pc' = "loop"
    /\ err' = raw
    /\ idx' = 0
    /\ error' = Undefined
    /\ match' = FALSE
    /\ errorObject' = NoObject
    /\ caught' = Undefined
    /\ intIdx' = 0
    /\ res' = FreshResponse
    /\ nextCalls' = <<>>
    /\ thrown' = Undefined
    /\ log' = <<>>
    /\ lastUse' = NoUse
    /\ UNCHANGED <<opts, stack>>

(* one iteration of while (!match && idx < stack.length) *)
CallLayer ==
    /\ pc = "loop"
    /\ ~match /\ idx < Len(stack)
    /\ LET layer == stack[idx + 1]
           r == CallPlugin(layer, err)
       IN /\ idx' = idx + 1
          /\ log' = Append(log, Event("plugin", layer, idx, err))
          /\ IF r.ok
             THEN /\ error' = r.val
                  /\ match' = IsMatch(err, r.val)
                  /\ UNCHANGED <<pc, thrown>>
             ELSE /\ pc' = "threw"
                  /\ thrown' = r.exc
                  /\ UNCHANGED <<error, match>>
    /\ UNCHANGED <<opts, stack, lastUse, err, errorObject, caught, intIdx,
                   res, nextCalls>>

LoopDone == pc = "loop" /\ (match \/ idx >= Len(stack))

(* next(error): the last classifier's result is handed on, not err *)
DeferResolved ==
    /\ LoopDone
    /\ ~match /\ ~opts.default500
    /\ nextCalls' = Append(nextCalls, error)
    /\ log' = Append(log, Event("next", "", 0, error))
    /\ pc' = "returned"
    /\ UNCHANGED <<opts, stack, lastUse, err, idx, error, match, errorObject,
                   caught, intIdx, res, thrown>>

(* if (!match && !opts.default500) return next(err) *)
Defer ==
    /\ LoopDone
    /\ ~match /\ ~opts.default500
    /\ nextCalls' = Append(nextCalls, err)
    /\ log' = Append(log, Event("next", "", 0, err))
    /\ pc' = "returned"
    /\ UNCHANGED <<opts, stack, lastUse, err, idx, error, match, errorObject,
                   caught, intIdx, res, thrown>>

(* lines 149-152: the error the rest of the handler works on *)
Resolved ==
    IF opts.default500 /\ ~match THEN Ref("default500", 0) ELSE error

(* if (isEmpty(error)) return res.status(error.status).end() *)
SendEmpty ==
    /\ LoopDone
    /\ match \/ opts.default500
    /\ LET n == Node(err, caught, Resolved) IN
       /\ isEmpty(n)
       /\ res' = ResEnd(ResStatus(res, n.status))
       /\ log' = log \o <<Event("res.status", "", n.status, Resolved),
                          Event("res.end", "", 0, Resolved)>>
    /\ error' = Resolved
    /\ pc' = "returned"
    /\ UNCHANGED <<opts, stack, lastUse, err, idx, match, errorObject, caught,
                   intIdx, nextCalls, thrown>>

(* if (isRedirect(error)) return res.status(error.status).redirect(error.redirectURL.toString()) *)
SendRedirect ==
    /\ LoopDone
    /\ match \/ opts.default500
    /\ LET n == Node(err, caught, Resolved) IN
       /\ ~isEmpty(n)
       /\ isRedirect(n)
       /\ res' = ResRedirect(ResStatus(res, n.status), n.redirectURL)
       /\ log' = log \o <<Event("res.status", "", n.status, Resolved),
                          Event("res.redirect", "", 0, Resolved)>>
    /\ error' = Resolved
    /\ pc' = "returned"
    /\ UNCHANGED <<opts, stack, lastUse, err, idx, match, errorObject, caught,
                   intIdx, nextCalls, thrown>>

(* how a formatter call ended: returned or threw, what it threw, and the   *)
(* greatest depth its recursion reached                                    *)
FormatDone(r) ==
    Event("format.done", IF r.ok THEN "returned" ELSE "threw", r.deepest, r.exc)

(* try { errorObject = (opts.formatter || format)(error, 0) } *)
TryFormat ==
    /\ LoopDone
    /\ match \/ opts.default500
    /\ LET n == Node(err, caught, Resolved)
           r == CallFormatter(opts.formatter, err, caught, Resolved)
       IN /\ ~isEmpty(n)
          /\ ~isRedirect(n)
          /\ log' = log \o <<Event("format", opts.formatter, 0, Resolved),
                             FormatDone(r)>>
          /\ IF r.ok
             THEN /\ errorObject' = r.val
                  /\ pc' = "stack"
                  /\ UNCHANGED caught
             ELSE /\ caught' = r.exc
                  /\ pc' = "catch"
                  /\ UNCHANGED errorObject
    /\ error' = Resolved
    /\ UNCHANGED <<opts, stack, lastUse, err, idx, match, intIdx, res,
                   nextCalls, thrown>>

(* the formatter the catch clause calls: (opts.formatter || format) *)
RecoveryFormatter == opts.formatter

(* no catch clause: the formatter's failure leaves the handler *)
CatchFormatRethrows ==
    /\ pc = "catch"
    /\ thrown' = caught
    /\ pc' = "threw"
    /\ UNCHANGED <<opts, stack, lastUse, err, idx, error, match, errorObject,
                   caught, intIdx, res, nextCalls, log>>

(* catch (err) { error = ...InternalServerError('Failed to parse an error  *)
(* object', [err]); errorObject = (opts.formatter || format)(error, 0) }   *)
CatchFormat ==
    /\ pc = "catch"
    /\ LET r == CallFormatter(RecoveryFormatter, err, caught, Ref("parseFail", 0)) IN
       /\ error' = Ref("parseFail", 0)
       /\ log' = log \o <<Event("format", RecoveryFormatter, 1, Ref("parseFail", 0)),
                          FormatDone(r)>>
       /\ IF r.ok
          THEN /\ errorObject' = r.val
               /\ pc' = "stack"
               /\ UNCHANGED thrown
          ELSE /\ thrown' = r.exc
               /\ pc' = "threw"
               /\ UNCHANGED errorObject
    /\ UNCHANGED <<opts, stack, lastUse, err, idx, match, caught, intIdx, res,
                   nextCalls>>

(* error.stack: the resolved error's stack *)
StackSourceResolved == error

(* the stack line 175 reads: err is the handler's parameter again *)
StackSource == err

(* if (opts.stack) errorObject.stack = err.stack *)
AttachStack ==
    /\ pc = "stack"
    /\ errorObject' =
          IF opts.stack
          THEN [errorObject EXCEPT !.hasStack = TRUE,
                                   !.stack = Node(err, caught, StackSource).stack]
          ELSE errorObject
    /\ log' = IF opts.stack
              THEN Append(log, Event("stack", "", 0, StackSource))
              ELSE log
    /\ pc' = "integrations"
    /\ UNCHANGED <<opts, stack, lastUse, err, idx, error, match, caught,
                   intIdx, res, nextCalls, thrown>>

(* integration(err, req, ...): the raw error is passed, not the resolved one *)
IntegratePassesRaw ==
    /\ pc = "integrations"
    /\ intIdx < Len(opts.integrations)
    /\ LET integration == opts.integrations[intIdx + 1] IN
       /\ log' = Append(log, Event("integration", integration, intIdx, err))
       /\ intIdx' = intIdx + 1
       /\ IF integration = "throws"
          THEN /\ thrown' = Ref("IntegrationError", 0)
               /\ pc' = "threw"
          ELSE UNCHANGED <<pc, thrown>>
    /\ UNCHANGED <<opts, stack, lastUse, err, idx, error, match, errorObject,
                   caught, res, nextCalls>>

(* each integration wrapped in a try/catch: a failure is swallowed *)
IntegrateSwallows ==
    /\ pc = "integrations"
    /\ intIdx < Len(opts.integrations)
    /\ log' = Append(log, Event("integration", opts.integrations[intIdx + 1],
                                intIdx, error))
    /\ intIdx' = intIdx + 1
    /\ UNCHANGED <<opts, stack, lastUse, pc, err, idx, error, match,
                   errorObject, caught, res, nextCalls, thrown>>

(* opts.integrations.forEach((integration) => integration(error, req, { ...res })) *)
Integrate ==
    /\ pc = "integrations"
    /\ intIdx < Len(opts.integrations)
    /\ LET integration == opts.integrations[intIdx + 1] IN
       /\ log' = Append(log, Event("integration", integration, intIdx, error))
       /\ intIdx' = intIdx + 1
       /\ IF integration = "throws"
          THEN /\ thrown' = Ref("IntegrationError", 0)
               /\ pc' = "threw"
          ELSE UNCHANGED <<pc, thrown>>
    /\ UNCHANGED <<opts, stack, lastUse, err, idx, error, match, errorObject,
                   caught, res, nextCalls>>

(* the response is written and the error is handed to next as well *)
RespondAlsoDefers ==
    /\ pc = "integrations"
    /\ intIdx >= Len(opts.integrations)
    /\ LET n == Node(err, caught, error) IN
       /\ res' = ResJson(ResStatus(res, n.status),
                         [error |-> errorObject, meta |-> [status |-> n.status]])
       /\ log' = log \o <<Event("res.status", "", n.status, error),
                          Event("res.json", "", 0, error),
                          Event("next", "", 0, err)>>
    /\ nextCalls' = Append(nextCalls, err)
    /\ pc' = "returned"
    /\ UNCHANGED <<opts, stack, lastUse, err, idx, error, match, errorObject,
                   caught, intIdx, thrown>>

(* return res.status(error.status).json({ error: errorObject, meta: { status: error.status } }) *)
Respond ==
    /\ pc = "integrations"
    /\ intIdx >= Len(opts.integrations)
    /\ LET n == Node(err, caught, error) IN
       /\ res' = ResJson(ResStatus(res, n.status),
                         [error |-> errorObject, meta |-> [status |-> n.status]])
       /\ log' = log \o <<Event("res.status", "", n.status, error),
                          Event("res.json", "", 0, error)>>
    /\ pc' = "returned"
    /\ UNCHANGED <<opts, stack, lastUse, err, idx, error, match, errorObject,
                   caught, intIdx, nextCalls, thrown>>

----------------------------------------------------------------------------

Next ==
    \/ \E arg \in UseArguments : Use(arg)
    \/ \E raw \in RawErrors : Handle(raw)
    \/ CallLayer
    \/ Defer
    \/ SendEmpty
    \/ SendRedirect
    \/ TryFormat
    \/ CatchFormat
    \/ AttachStack
    \/ Integrate
    \/ Respond

Spec == Init /\ [][Next]_vars

----------------------------------------------------------------------------
(* Vocabulary of the properties *)

IsPluginEvent(e) == e.op = "plugin"
IsFormatEvent(e) == e.op = "format"
IsIntegrationEvent(e) == e.op = "integration"
IsResponseEvent(e) ==
    e.op \in {"res.status", "res.end", "res.redirect", "res.json"}

PluginEvents == SelectSeq(log, IsPluginEvent)
FormatEvents == SelectSeq(log, IsFormatEvent)
IntegrationEvents == SelectSeq(log, IsIntegrationEvent)
ResponseEvents == SelectSeq(log, IsResponseEvent)

Handling == pc # "idle"

(* the layer returns, and what it returns is nominally an HTTPError *)
ReturnsHTTPError(layer) ==
    LET r == CallPlugin(layer, err) IN
    r.ok /\ r.val # Undefined /\ Node(err, Undefined, r.val).http

(* the layer returns something that is not an HTTPError *)
ReturnsNoMatch(layer) ==
    LET r == CallPlugin(layer, err) IN
    r.ok /\ (r.val = Undefined \/ ~Node(err, Undefined, r.val).http)

NoClassifierMatches == \A i \in 1..Len(stack) : ReturnsNoMatch(stack[i])

RawIsHTTPError == StaticNode(err).http

(* the levels of nesting below a value: an underlyingError adds one level, *)
(* a list is as deep as its deepest element                                *)
RECURSIVE NestingDepth(_, _)
NestingDepth(id, fuel) ==
    LET n == Node(err, caught, id)
        Deepest(S) == IF S = {} THEN 0 ELSE CHOOSE d \in S : \A e \in S : e <= d
    IN IF fuel = 0 THEN 0
       ELSE IF n.kind = "array"
       THEN Deepest({NestingDepth(n.elems[i], fuel - 1) : i \in 1..Len(n.elems)})
       ELSE IF n.hasUnderlying
       THEN 1 + NestingDepth(n.underlying, fuel - 1)
       ELSE 0

Depth(id) == NestingDepth(id, 2 * MaxChain + 8)

FailedToParse == "Failed to parse an error object"

----------------------------------------------------------------------------
(* C1: handleError invokes the classifiers of the plugin chain in          *)
(* insertion order, starting with the built-in pass-through at index 0,    *)
(* each at most once; a returned value that is not an HTTPError is no      *)
(* match; the resolved error is the value returned by the first classifier *)
(* that returns an HTTPError, and no classifier after that one is invoked. *)
C1_FirstMatchWins ==
    LET ev == PluginEvents IN
    /\ Len(ev) = idx
    /\ \A i \in 1..Len(ev) : ev[i].n = i - 1 /\ ev[i].who = stack[i]
    /\ Len(ev) >= 1 => ev[1].who = "defaultPlugin"
    /\ \A i \in 1..(Len(ev) - 1) : ReturnsNoMatch(stack[i])
    /\ match => ReturnsHTTPError(stack[idx])
    /\ (pc = "loop" /\ match) => error = CallPlugin(stack[idx], err).val
    /\ (pc = "loop" /\ ~match /\ idx >= 1) => ReturnsNoMatch(stack[idx])

(* a user plugin matched after the pass-through did not, and a later       *)
(* plugin was left uninvoked                                               *)
C1_Witness ==
    /\ pc = "returned"
    /\ match
    /\ idx = 2
    /\ Len(stack) = 3
    /\ Len(PluginEvents) = 2

(* C2 as stated: for a raw error that already is an HTTPError the resolved *)
(* error is that exact value, no user-registered plugin is invoked, and    *)
(* the response is built from that value's own status and message.         *)
C2_Original ==
    (pc = "returned" /\ RawIsHTTPError) =>
        /\ error = err
        /\ Len(PluginEvents) = 1
        /\ \E i \in 1..Len(log) :
              log[i].op = "res.status" /\ log[i].n = StaticNode(err).status
        /\ (res.sent = "json" /\ opts.formatter = "format") =>
              res.body.error.message = StaticNode(err).message

(* C2 amended: for a raw error that already is an HTTPError the plugin     *)
(* loop resolves to that exact value after invoking the built-in           *)
(* pass-through alone; res.status receives that value's own status unless  *)
(* formatting it raised, and with the built-in formatter the JSON message  *)
(* is then its own message; when formatting raised, the response is built  *)
(* from the synthesized 500 error instead.                                 *)
C2_PassThrough ==
    (Handling /\ RawIsHTTPError /\ idx >= 1) =>
        /\ idx = 1
        /\ match
        /\ Len(PluginEvents) = 1
        /\ PluginEvents[1].who = "defaultPlugin"
        /\ caught = Undefined => error = err
        /\ (pc = "returned" /\ caught = Undefined) =>
              /\ ResponseEvents[1].op = "res.status"
              /\ ResponseEvents[1].n = StaticNode(err).status
              /\ (res.sent = "json" /\ opts.formatter = "format") =>
                    /\ res.statusCode = StaticNode(err).status
                    /\ res.body.error.message = StaticNode(err).message
        /\ (pc = "returned" /\ caught # Undefined) =>
              /\ error = Ref("parseFail", 0)
              /\ res.sent = "json"
              /\ res.statusCode = 500
              /\ res.body.error.message = FailedToParse

(* an HTTPError passed two registered plugins by and was answered as JSON  *)
C2_Witness ==
    /\ pc = "returned"
    /\ RawIsHTTPError
    /\ Len(stack) = 3
    /\ res.sent = "json"
    /\ caught = Undefined
    /\ res.body.error.message = StaticNode(err).message

(* C3: when no classifier of the chain returns an HTTPError and default500 *)
(* is false, the handler calls next exactly once, with the original raw    *)
(* error, and performs no response operation at all.                       *)
C3_DefersUntouched ==
    (Handling /\ NoClassifierMatches /\ ~opts.default500) =>
        /\ pc \in {"loop", "returned"}
        /\ res = FreshResponse
        /\ ResponseEvents = <<>>
        /\ pc = "loop" => nextCalls = <<>>
        /\ pc = "returned" => nextCalls = <<err>>

(* a chain with a plugin returning a non-HTTPError value deferred *)
C3_Witness ==
    /\ pc = "returned"
    /\ ~opts.default500
    /\ NoClassifierMatches
    /\ \E i \in 1..Len(stack) : stack[i] = "returnsObject"
    /\ nextCalls = <<err>>

(* C4 as stated: when no classifier matches and default500 is true, the    *)
(* handler emits a JSON response with status 500 whose error.message       *)
(* equals the raw error's message, for all raw errors.                     *)
C4_Original ==
    (pc = "returned" /\ NoClassifierMatches /\ opts.default500) =>
        /\ res.sent = "json"
        /\ res.statusCode = 500
        /\ res.body.error.message = StaticNode(err).message

(* C4 amended: when no classifier matches, default500 is true and the      *)
(* built-in formatter is configured, a handler that returns has emitted a  *)
(* JSON response with status 500; its error.message equals the raw error's *)
(* message exactly when the raw error nests fewer than 10 levels of        *)
(* underlying errors, and is 'Failed to parse an error object' otherwise.  *)
C4_Default500 ==
    (pc = "returned" /\ NoClassifierMatches /\ opts.default500
        /\ opts.formatter = "format") =>
        /\ res.sent = "json"
        /\ res.statusCode = 500
        /\ res.body.meta.status = 500
        /\ Depth(err) < MaxDepth =>
              /\ error = Ref("default500", 0)
              /\ res.body.error.message = StaticNode(err).message
        /\ Depth(err) >= MaxDepth =>
              /\ error = Ref("parseFail", 0)
              /\ res.body.error.message = FailedToParse

(* a raw error with nested underlying errors was answered with its message *)
C4_Witness ==
    /\ pc = "returned"
    /\ NoClassifierMatches
    /\ opts.default500
    /\ opts.formatter = "format"
    /\ Depth(err) = MaxDepth - 1
    /\ res.statusCode = 500
    /\ res.body.error.message = StaticNode(err).message

(* C5: for a resolved error whose status the status table classifies as    *)
(* empty, the handler sets the response status to the error's status and   *)
(* ends the response with no body; the formatter is not run and no JSON    *)
(* body is written.                                                        *)
C5_EmptyBody ==
    (pc = "returned" /\ (match \/ opts.default500)
        /\ Node(err, caught, error).status \in EmptyStatuses) =>
        /\ res.statusCode = Node(err, caught, error).status
        /\ res.sent = "end"
        /\ res.writes = 1
        /\ res.body = NoBody
        /\ FormatEvents = <<>>
        /\ \A i \in 1..Len(log) : log[i].op # "res.json"

(* a NoContent error was answered 204 with res.end() *)
C5_Witness ==
    /\ pc = "returned"
    /\ error = Ref("http204", 0)
    /\ res.statusCode = 204
    /\ res.sent = "end"

(* C6 as stated: for a resolved error whose status the status table        *)
(* classifies as redirect, the emitted response carries the error's own    *)
(* status and a Location header equal to the error's redirectURL, and no   *)
(* JSON body is written.                                                   *)
C6_Original ==
    (pc = "returned" /\ (match \/ opts.default500)
        /\ Node(err, caught, error).status \in RedirectStatuses) =>
        /\ res.statusCode = Node(err, caught, error).status
        /\ res.location = Node(err, caught, error).redirectURL
        /\ res.body = NoBody
        /\ \A i \in 1..Len(log) : log[i].op # "res.json"

(* the error plugin resolution produced, before any recovery replaced it *)
OriginalResolved ==
    IF match THEN CallPlugin(stack[idx], err).val ELSE Ref("default500", 0)

(* C7: with the built-in formatter, a resolved error whose underlying      *)
(* chain is 11 levels deep (deeper than the ceiling of 10) makes the       *)
(* handler emit a JSON response with status 500 and meta.status 500 whose  *)
(* error.message is 'Failed to parse an error object', built from a        *)
(* synthesized Internal Server Error that replaces the resolved error; the *)
(* depth-exceeded failure does not leave the handler.                      *)
C7_DepthFallback ==
    (opts.formatter = "format" /\ FormatEvents # <<>>
        /\ Depth(OriginalResolved) > MaxDepth) =>
        /\ caught = Ref("RangeError", 0)
        /\ thrown # Ref("RangeError", 0)
        /\ pc # "catch" =>
              /\ error = Ref("parseFail", 0)
              /\ Node(err, caught, error).name = "InternalServerError"
              /\ errorObject.message = FailedToParse
        /\ pc = "threw" => thrown = Ref("IntegrationError", 0)
        /\ pc = "returned" =>
              /\ res.sent = "json"
              /\ res.statusCode = 500
              /\ res.body.meta.status = 500
              /\ res.body.error.message = FailedToParse

(* an UnprocessableEntity over a chain exactly 11 levels deep was answered *)
(* with the fallback                                                       *)
C7_Witness ==
    /\ pc = "returned"
    /\ opts.formatter = "format"
    /\ err.t = "http422"
    /\ Depth(OriginalResolved) = MaxDepth + 1
    /\ res.statusCode = 500
    /\ res.body.error.message = FailedToParse

(* C8 as stated: whatever formatter is configured, when formatting the     *)
(* resolved error raises, the recovery step formats the synthesized        *)
(* fallback with the built-in formatter and no failure of the recovery     *)
(* leaves the handler: the handler goes on to emit a response.             *)
C8_Original ==
    (pc \in {"returned", "threw"} /\ caught # Undefined) =>
        /\ \A i \in 1..Len(log) :
              (log[i].op = "format" /\ log[i].n = 1) => log[i].who = "format"
        /\ pc = "threw" => thrown = Ref("IntegrationError", 0)
        /\ pc = "returned" => res.sent = "json"

(* C9: when config.stack is true, on every JSON response the formatted     *)
(* object's stack is the stack of the original raw error, not that of the  *)
(* resolved or synthesized error, and it is assigned after formatting      *)
(* completes; when config.stack is false the handler adds no stack field.  *)
C9_RawStack ==
    /\ opts.stack =>
          /\ (pc = "integrations" \/ res.sent = "json") =>
                /\ errorObject.hasStack
                /\ errorObject.stack = StaticNode(err).stack
          /\ res.sent = "json" =>
                /\ res.body.error.hasStack
                /\ res.body.error.stack = StaticNode(err).stack
          /\ \A i, j \in 1..Len(log) :
                (log[i].op = "stack" /\ log[j].op = "format") => j < i
    /\ ~opts.stack =>
          /\ \A i \in 1..Len(log) : log[i].op # "stack"
          /\ errorObject.isObj => ~errorObject.hasStack
          /\ res.sent = "json" => ~res.body.error.hasStack

(* a plugin-built error was answered with the raw error's stack *)
C9_Witness ==
    /\ pc = "returned"
    /\ opts.stack
    /\ res.sent = "json"
    /\ error = Ref("plugin422", 0)
    /\ Node(err, caught, error).stack # StaticNode(err).stack
    /\ res.body.error.stack = StaticNode(err).stack

(* C10 as stated: whenever the handler emits a response for a resolved     *)
(* error, whatever its shape (empty body, redirect or JSON), every         *)
(* configured integration has been invoked, in configuration order, with   *)
(* the resolved error, before the response is emitted.                     *)
C10_Original ==
    (pc = "returned" /\ res.sent # "none") =>
        /\ Len(IntegrationEvents) = Len(opts.integrations)
        /\ \A i \in 1..Len(IntegrationEvents) :
              /\ IntegrationEvents[i].who = opts.integrations[i]
              /\ IntegrationEvents[i].ref = error
        /\ \A i, j \in 1..Len(log) :
              (IsIntegrationEvent(log[i]) /\ IsResponseEvent(log[j])) => i < j

(* C11: if an integration callback raises, the failure leaves the handler  *)
(* uncaught, no later integration of the list is invoked, and emission is  *)
(* aborted cleanly: no status is set, no body is written, and next is not  *)
(* called.                                                                 *)
C11_IntegrationFailureAborts ==
    \A i \in 1..Len(log) :
        (log[i].op = "integration" /\ log[i].who = "throws") =>
            /\ i = Len(log)
            /\ pc = "threw"
            /\ thrown = Ref("IntegrationError", 0)
            /\ intIdx = log[i].n + 1
            /\ \A j \in 1..(Len(IntegrationEvents) - 1) :
                  IntegrationEvents[j].who = "logs"
            /\ res = FreshResponse
            /\ ResponseEvents = <<>>
            /\ nextCalls = <<>>

(* the first of two integrations raised: the second was never called and   *)
(* nothing was written                                                     *)
C11_Witness ==
    /\ pc = "threw"
    /\ thrown = Ref("IntegrationError", 0)
    /\ Len(opts.integrations) = 2
    /\ opts.integrations[1] = "throws"
    /\ Len(IntegrationEvents) = 1
    /\ res = FreshResponse

UseTypeErrors ==
    {"TypeError: erred.use() requires a middleware function",
     "TypeError: erred.use() requires a middleware function but got a "}

(* C12: after any sequence of use() calls the plugin chain is the built-in *)
(* pass-through at index 0 followed by exactly the function arguments of   *)
(* the successful calls, in call order; a call whose argument is absent or *)
(* not a function fails with a TypeError and leaves the chain unchanged.   *)
C12_UseAppendsOnly ==
    /\ [](/\ stack[1] = "defaultPlugin"
          /\ \A i \in 2..Len(stack) : stack[i] \in PluginKinds)
    /\ [][/\ (pc # "idle" \/ pc' # "idle") => stack' = stack
          /\ (pc = "idle" /\ pc' = "idle") =>
                IF lastUse'.arg.truthy /\ lastUse'.arg.type = "function"
                THEN /\ stack' = Append(stack, lastUse'.arg.fn)
                     /\ lastUse'.outcome = "ok"
                ELSE /\ stack' = stack
                     /\ lastUse'.outcome \in UseTypeErrors]_vars

(* two plugins were registered and a later use([]) was rejected *)
C12_Witness ==
    /\ pc = "idle"
    /\ Len(stack) = 3
    /\ lastUse.arg.type = "Array"
    /\ lastUse.outcome \in UseTypeErrors
    /\ lastUse.got = "Array"

(* the meta the claim expects for a node: {property, value} built from the *)
(* error when it carries either, its own meta when it carries only that    *)
ExpectedMeta(n) ==
    IF n.hasProperty \/ n.hasValue
    THEN [kind |-> "propertyValue", meta |-> "undefined",
          property |-> n.property, value |-> n.value]
    ELSE IF n.hasMeta
    THEN [kind |-> "meta", meta |-> n.meta,
          property |-> "undefined", value |-> "undefined"]
    ELSE [kind |-> "absent", meta |-> "undefined",
          property |-> "undefined", value |-> "undefined"]

(* the elements of a list whose results format keeps: those not lists *)
IsNotListRef(id) == Node(err, caught, id).kind # "array"

(* every object of a formatted tree carries the expected meta of the error *)
(* it was formatted from                                                   *)
RECURSIVE MetaAgrees(_, _, _)
MetaAgrees(obj, id, fuel) ==
    LET n == Node(err, caught, id) IN
    IF fuel = 0 THEN TRUE
    ELSE IF n.kind = "array"
    THEN LET kept == SelectSeq(n.elems, IsNotListRef) IN
         /\ obj.isArr
         /\ Len(obj.items) = Len(kept)
         /\ \A i \in 1..Len(kept) :
               MetaAgrees(obj.items[i], kept[i], fuel - 1)
    ELSE /\ obj.isObj
         /\ obj.meta = ExpectedMeta(n)
         /\ obj.hasErrors = n.hasUnderlying
         /\ n.hasUnderlying => MetaAgrees(obj.errors, n.underlying, fuel - 1)

(* C13: for every error formatted by the built-in formatter, top-level or  *)
(* nested, that carries property or value, the formatted meta is exactly   *)
(* {property, value} built from that error, discarding any meta the error  *)
(* also carries; an error carrying meta but neither property nor value     *)
(* keeps its meta.                                                         *)
C13_PropertyValueMeta ==
    (opts.formatter = "format" /\ errorObject.isObj) =>
        /\ MetaAgrees(errorObject, error, 2 * MaxChain + 8)
        /\ res.sent = "json" =>
              MetaAgrees([res.body.error EXCEPT !.hasStack = FALSE, !.stack = Absent],
                         error, 2 * MaxChain + 8)

(* nested errors with property and value, with meta only, and with meta    *)
(* and property were formatted under one UnprocessableEntity               *)
C13_Witness ==
    /\ pc = "returned"
    /\ opts.formatter = "format"
    /\ err = Ref("http422v", 0)
    /\ res.sent = "json"
    /\ res.statusCode = 422
    /\ res.body.error.errors.items[1].meta =
          [kind |-> "propertyValue", meta |-> "undefined",
           property |-> "name", value |-> "1337"]
    /\ res.body.error.errors.items[2].meta.kind = "meta"
    /\ res.body.error.errors.items[3].meta =
          [kind |-> "propertyValue", meta |-> "undefined",
           property |-> "age", value |-> "undefined"]

(* positions of the log holding an event of one of the given operations *)
Positions(ops) == {i \in 1..Len(log) : log[i].op \in ops}

(* C14: on the JSON path each configured integration is invoked exactly    *)
(* once, in list order, strictly after formatting (any recovery re-format  *)
(* and the stack attachment included) has finished and strictly before the *)
(* response status and the JSON body are written; the error passed to the  *)
(* integrations is the one whose status is then written.                   *)
C14_IntegrationsBetween ==
    /\ pc = "integrations" => ResponseEvents = <<>>
    /\ (pc = "returned" /\ res.sent = "json") =>
          /\ Len(IntegrationEvents) = Len(opts.integrations)
          /\ \A i \in 1..Len(IntegrationEvents) :
                /\ IntegrationEvents[i].who = opts.integrations[i]
                /\ IntegrationEvents[i].n = i - 1
                /\ IntegrationEvents[i].ref = error
          /\ \A i \in Positions({"format", "stack"}) :
                \A j \in Positions({"integration"}) : i < j
          /\ \A i \in Positions({"integration"}) :
                \A j \in Positions({"res.status", "res.json"}) : i < j
          /\ Positions({"format"}) # {}
          /\ opts.stack => Positions({"stack"}) # {}
          /\ ResponseEvents =
                <<Event("res.status", "", Node(err, caught, error).status, error),
                  Event("res.json", "", 0, error)>>
          /\ res.statusCode = Node(err, caught, error).status
          /\ caught # Undefined => error = Ref("parseFail", 0)

(* after a failed format and its recovery, two integrations were called    *)
(* with the synthesized error before the 500 was written                   *)
C14_Witness ==
    /\ pc = "returned"
    /\ res.sent = "json"
    /\ opts.stack
    /\ caught # Undefined
    /\ error = Ref("parseFail", 0)
    /\ Len(IntegrationEvents) = 2
    /\ IntegrationEvents[2].ref = Ref("parseFail", 0)
    /\ res.statusCode = 500

(* the values a value refers to: the elements of a list, the               *)
(* underlyingError of an error                                             *)
Children(id) ==
    LET n == Node(err, caught, id) IN
    IF n.kind = "array" THEN {n.elems[i] : i \in 1..Len(n.elems)}
    ELSE IF n.hasUnderlying THEN {n.underlying}
    ELSE {}

ListChildren(id) ==
    {c \in Children(id) : Node(err, caught, c).kind = "array"}

RECURSIVE ReachFrom(_, _)
ReachFrom(S, fuel) ==
    LET T == S \cup UNION {Children(x) : x \in S} IN
    IF fuel = 0 \/ T = S THEN S ELSE ReachFrom(T, fuel - 1)

RECURSIVE ListReachFrom(_, _)
ListReachFrom(S, fuel) ==
    LET T == S \cup UNION {ListChildren(x) : x \in S} IN
    IF fuel = 0 \/ T = S THEN S ELSE ListReachFrom(T, fuel - 1)

(* some list reachable from the value contains itself, directly or through *)
(* other lists alone                                                       *)
HasListCycle(id) ==
    \E a \in ReachFrom({id}, 4 * MaxChain + 8) :
        /\ Node(err, caught, a).kind = "array"
        /\ a \in ListReachFrom(ListChildren(a), 4 * MaxChain + 8)

(* the calls of the built-in formatter: position of the call in the log,   *)
(* followed by the event that records how it ended                         *)
BuiltInCalls ==
    {i \in 1..(Len(log) - 1) : log[i].op = "format" /\ log[i].who = "format"}

DepthExceededError == Ref("RangeError", 0)

(* C15 as stated: format(error, 0) terminates on every input error graph,  *)
(* cyclic underlyingError references and lists nested in lists included:   *)
(* it returns a formatted result or raises the depth-exceeded failure, and *)
(* never recurses past depth 11, every recursive call increasing depth.    *)
C15_Original ==
    \A i \in BuiltInCalls :
        /\ log[i + 1].op = "format.done"
        /\ log[i + 1].who = "returned" \/ log[i + 1].ref = DepthExceededError
        /\ log[i + 1].n <= MaxDepth + 1

(* C15 amended: format(error, 0) never enters a call with a depth above    *)
(* 11, and on every input in which no list contains itself (directly or    *)
(* through other lists) it returns a formatted result when the input nests *)
(* at most 10 levels, and raises the depth-exceeded failure otherwise,     *)
(* cyclic underlyingError references included.  The elements of a list are *)
(* formatted at the list's own depth, so on a list that contains itself    *)
(* the recursion does not increase depth and ends only when the call stack *)
(* overflows.                                                              *)
C15_FormatTerminates ==
    \A i \in BuiltInCalls :
        LET done == log[i + 1]
            input == log[i].ref
        IN /\ done.op = "format.done"
           /\ done.n <= MaxDepth + 1
           /\ HasListCycle(input) =>
                 /\ done.who = "threw"
                 /\ done.ref = Ref("StackOverflow", 0)
           /\ (~HasListCycle(input) /\ Depth(input) > MaxDepth) =>
                 /\ done.who = "threw"
                 /\ done.ref = DepthExceededError
                 /\ done.n = MaxDepth + 1
           /\ (~HasListCycle(input) /\ Depth(input) <= MaxDepth) =>
                 /\ done.who = "returned"
                 /\ done.n = Depth(input)

(* an error whose underlyingError is a list holding the error itself was   *)
(* stopped by the depth ceiling                                            *)
C15_Witness ==
    /\ err = Ref("selfList", 0)
    /\ opts.formatter = "format"
    /\ \E i \in BuiltInCalls :
          /\ log[i].ref = err
          /\ log[i + 1].who = "threw"
          /\ log[i + 1].ref = DepthExceededError
          /\ log[i + 1].n = MaxDepth + 1

(* the events that end an invocation: next(err), res.end(), res.redirect() *)
(* and res.json()                                                          *)
IsTerminalEvent(e) == e.op \in {"next", "res.end", "res.redirect", "res.json"}

TerminalEvents == {i \in 1..Len(log) : IsTerminalEvent(log[i])}

(* nothing raised during the invocation: no classifier or integration      *)
(* (thrown) and no formatter (caught, thrown)                              *)
NothingRaised == thrown = Undefined /\ caught = Undefined

(* C16: an invocation in which no classifier, formatter or integration     *)
(* raises performs exactly one terminal action, one of next(err),          *)
(* status+end, status+redirect and status+json; no invocation both defers  *)
(* through next and writes to the response, or writes to the response      *)
(* twice.                                                                  *)
C16_OneTerminalAction ==
    /\ Len(nextCalls) + res.writes <= 1
    /\ Cardinality(TerminalEvents) = Len(nextCalls) + res.writes
    /\ pc = "threw" => thrown # Undefined
    /\ (pc = "returned" /\ NothingRaised) =>
          /\ Len(nextCalls) + res.writes = 1
          /\ TerminalEvents = {Len(log)}
          /\ res.sent = "none" <=> Len(nextCalls) = 1
          /\ log[Len(log)].op = "next" <=> Len(nextCalls) = 1
          /\ res.writes = 1 =>
                /\ log[Len(log)].op = "res." \o res.sent
                /\ log[Len(log) - 1].op = "res.status"
                /\ res.sent \in {"end", "redirect", "json"}
          /\ \A i \in 1..(Len(log) - 1) :
                log[i].op = "res.status" => i = Len(log) - 1

(* the handler ran with a classifier, the formatter and an integration     *)
(* and nothing raised: the JSON response is the one thing it sent          *)
C16_Witness ==
    /\ pc = "returned"
    /\ NothingRaised
    /\ PluginEvents # <<>> /\ FormatEvents # <<>> /\ IntegrationEvents # <<>>
    /\ res.sent = "json"
    /\ res.writes = 1
    /\ nextCalls = <<>>

====
